---------------------------- MODULE Spec2Model ----------------------------
(***************************************************************************)
(* A model of versatileimagefield/utils.py: the size-key grammar, the      *)
(* rendition-key-set validation, URL resolution over an image object's     *)
(* attribute tree, the url-set builder, the sized/filtered file name and   *)
(* path templates, and the MIME classification of an uploaded stream.      *)
(*                                                                         *)
(* Python strings are modelled as sequences of one-character strings, so   *)
(* that split, rsplit, lower, replace, "in" and the %-formatting are       *)
(* computed character by character as the interpreter computes them.       *)
(***************************************************************************)
EXTENDS Integers, Sequences, FiniteSets, TLC

VARIABLES
    fn,             \* the function of utils.py that is being executed
    pc,             \* the position inside that function
    sizes,          \* validate/build: the items of the `sizes` iterable
    sizesKind,      \* "list" (re-iterable) or "iterator" (one-shot)
    cursor,         \* number of items already consumed from `sizes`
    image_instance, \* build/resolve: the root image object
    request,        \* build: "None" or the request object
    size_set,       \* build: the validated list (local variable, line 228)
    to_return,      \* build: the dictionary being filled (set of <<key, url>>)
    idx,            \* build: number of turns of the loop at line 231 done
    resolved,       \* build: number of get_url_from_image_key calls made
    args,           \* the arguments of a pure function call
    post_processor, \* settings.VERSATILEIMAGEFIELD_POST_PROCESSOR
    stream_pos,     \* classify: position of the file-like object
    outcome,        \* "none" while running, "return", or the exception raised
    result          \* the value returned (when outcome = "return")

vars == <<fn, pc, sizes, sizesKind, cursor, image_instance, request, size_set,
          to_return, idx, resolved, args, post_processor, stream_pos,
          outcome, result>>

-----------------------------------------------------------------------------
(* Bounds of the model. *)

\* longest generated size key (characters)
MaxKeyLen == 4
\* longest `sizes` iterable
MaxSet == 2
\* longest generated file name
MaxNameLen == 3
\* longest generated path
MaxPathLen == 3
\* most candidates the sniffer returns
MaxCand == 2

-----------------------------------------------------------------------------
(* Python str primitives over sequences of characters. *)

\* all sequences over S of length 0..n
SeqsUpTo(S, n) == UNION { [1..k -> S] : k \in 0..n }

\* `c in s` for a one-character c
InStr(c, s) == \E i \in 1..Len(s) : s[i] = c

\* s.startswith(p)
StartsWith(s, p) == Len(s) >= Len(p) /\ SubSeq(s, 1, Len(p)) = p

\* s.find(sep): the lowest index where sep occurs in s, 0 when it does not
Find(s, sep) ==
    LET hits == { i \in 1..(Len(s) - Len(sep) + 1) :
                     SubSeq(s, i, i + Len(sep) - 1) = sep }
    IN  IF hits = {} THEN 0
        ELSE CHOOSE i \in hits : \A j \in hits : i <= j

\* s.rfind(sep): the highest index where sep occurs in s, 0 when it does not
RFind(s, sep) ==
    LET hits == { i \in 1..(Len(s) - Len(sep) + 1) :
                     SubSeq(s, i, i + Len(sep) - 1) = sep }
    IN  IF hits = {} THEN 0
        ELSE CHOOSE i \in hits : \A j \in hits : i >= j

\* s.split(sep): left to right, non-overlapping occurrences of sep
RECURSIVE split(_, _)
split(s, sep) ==
    LET i == Find(s, sep)
    IN  IF i = 0 THEN <<s>>
        ELSE <<SubSeq(s, 1, i - 1)>>
                 \o split(SubSeq(s, i + Len(sep), Len(s)), sep)

\* s.replace(c, ''): every occurrence of the character c removed
RECURSIVE replace_char(_, _)
replace_char(s, c) ==
    IF s = <<>> THEN <<>>
    ELSE (IF Head(s) = c THEN <<>> ELSE <<Head(s)>>)
             \o replace_char(Tail(s), c)

DUNDER == <<"_", "_">>


-----------------------------------------------------------------------------
(* String literals used as inputs and by the code. *)

\* 'url'
S_url == <<"u", "r", "l">>
\* 'crop__400x400'
K_crop__400x400 ==
    <<"c", "r", "o", "p", "_", "_", "4", "0", "0", "x", "4", "0", "0">>
\* 'filters__invert__url'
K_filters__invert__url ==
    <<"f", "i", "l", "t", "e", "r", "s", "_", "_", "i", "n", "v", "e",
      "r", "t", "_", "_", "u", "r", "l">>
\* '4xy'
K_4xy == <<"4", "x", "y">>
\* 'crop_400_400'
K_crop_400_400 ==
    <<"c", "r", "o", "p", "_", "4", "0", "0", "_", "4", "0", "0">>
\* 'box__fit'
K_box__fit == <<"b", "o", "x", "_", "_", "f", "i", "t">>
\* 'a', 'b': labels
L_a == <<"a">>
L_b == <<"b">>

-----------------------------------------------------------------------------
(* The elements of a `sizes` iterable.  An element is a 2-tuple of strings *)
(* (what the docstring asks for), another tuple, a string (whose items are *)
(* its characters) or a non-iterable; `v` holds the items it yields.       *)

Tuple(items) == [t |-> "tuple", v |-> items]
Pair(label, size_key) == Tuple(<<label, size_key>>)
Str(s) == [t |-> "str", v |-> [i \in 1..Len(s) |-> <<s[i]>>]]
NonIterable == [t |-> "int", v |-> <<>>]

IsPair(e) == e.t = "tuple" /\ Len(e.v) = 2

\* the set of the elements of a sequence
Range(q) == { q[i] : i \in 1..Len(q) }

\* the orders in which a list built from the set S may enumerate it
Orders(S) ==
    { q \in [1..Cardinality(S) -> S] :
         \A i, j \in 1..Cardinality(S) : i # j => q[i] # q[j] }

\* `key, size_key = element` (line 177): "ok", or the exception raised
Unpack(e) ==
    IF e.t = "int" THEN "TypeError"
    ELSE IF Len(e.v) # 2 THEN "ValueError"
    ELSE "ok"

\* a variant of the condition below that looks for 'url' and 'x' in the whole
\* size key instead of its last segment
InvalidSizeKeyCond_WholeKey(size_key) ==
    size_key # S_url /\ ~InStr("x", size_key)

\* the condition of the `if` at lines 179-181 that raises InvalidSizeKey
InvalidSizeKeyCond(size_key) ==
    LET size_key_split == split(size_key, DUNDER)
        last == size_key_split[Len(size_key_split)]
    IN  last # S_url /\ ~InStr("x", last)

\* what one turn of the loop body (lines 177-187) ends with for element e:
\* "ok" (next turn) or the exception that leaves the function
ValidateElement(e) ==
    CASE Unpack(e) = "ValueError" -> "InvalidSizeKeySet"
      [] Unpack(e) = "TypeError"  -> "TypeError"
      [] OTHER -> IF InvalidSizeKeyCond(e.v[2]) THEN "InvalidSizeKey"
                  ELSE "ok"

\* the items a fresh iteration over `sizes` yields: a list starts over, a
\* one-shot iterator goes on from where it was left
Iterate(items, kind, consumed) ==
    IF kind = "list" THEN items
    ELSE SubSeq(items, consumed + 1, Len(items))

-----------------------------------------------------------------------------
(* validate_versatileimagefield_sizekey_list (lines 165-193), also as the  *)
(* first statement of build_versatileimagefield_url_set (line 228).        *)

\* one turn of `for key, size_key in sizes` (lines 177-187)
ValidateFor ==
    /\ pc = "validate_for"
    /\ cursor < Len(sizes)
    /\ cursor' = cursor + 1
    /\ LET r == ValidateElement(sizes[cursor + 1])
       IN  IF r = "ok"
           THEN UNCHANGED <<pc, outcome>>
           ELSE pc' = "done" /\ outcome' = r
    /\ UNCHANGED <<fn, sizes, sizesKind, image_instance, request, size_set,
                   to_return, idx, resolved, args, post_processor,
                   stream_pos, result>>

\* the loop is exhausted: `return list(set(sizes))` (line 193)
ValidateReturn ==
    /\ pc = "validate_for"
    /\ cursor = Len(sizes)
    /\ \E order \in Orders(Range(Iterate(sizes, sizesKind, cursor))) :
          IF fn = "build"
          THEN /\ size_set' = order
               /\ pc' = "build_if"
               /\ UNCHANGED <<outcome, result>>
          ELSE /\ result' = order
               /\ outcome' = "return"
               /\ pc' = "done"
               /\ UNCHANGED size_set
    /\ UNCHANGED <<fn, sizes, sizesKind, cursor, image_instance, request,
                   to_return, idx, resolved, args, post_processor,
                   stream_pos>>

\* the caller validates the returned list again (it is a list now)
ValidateAgain ==
    /\ fn = "validate" /\ pc = "done" /\ outcome = "return"
    /\ args.pass = 1
    /\ args' = [pass |-> 2, first |-> result, input |-> args.input]
    /\ sizes' = result
    /\ sizesKind' = "list"
    /\ cursor' = 0
    /\ pc' = "validate_for"
    /\ outcome' = "none"
    /\ result' = <<>>
    /\ UNCHANGED <<fn, image_instance, request, size_set, to_return, idx,
                   resolved, post_processor, stream_pos>>

\* generated size keys
KeyAlphabet == {"x", "_", "a"}
GenKeys == SeqsUpTo(KeyAlphabet, MaxKeyLen)
NamedKeys ==
    {S_url, K_crop__400x400, K_filters__invert__url, K_4xy, K_crop_400_400,
     K_box__fit}
AllKeys == GenKeys \cup NamedKeys

\* elements that are combined freely into lists
ListPool ==
    {Pair(L_a, S_url), Pair(L_a, K_crop__400x400),
     Pair(L_b, K_crop__400x400), Pair(L_a, K_crop_400_400),
     Str(<<"a", "x">>), Str(<<"a", "b">>), Str(S_url),
     Tuple(<<L_a, S_url, S_url>>), NonIterable}
\* elements that are tried alone
SinglePool ==
    { Pair(l, k) : l \in {L_a, L_b}, k \in AllKeys }
        \cup { Str(k) : k \in AllKeys }

ValidateInputs ==
    SeqsUpTo(ListPool, MaxSet) \cup { <<e>> : e \in SinglePool }

InitValidate ==
    /\ fn = "validate"
    /\ pc = "validate_for"
    /\ sizes \in ValidateInputs
    /\ sizesKind \in {"list", "iterator"}
    /\ cursor = 0
    /\ image_instance = "None"
    /\ request = "None"
    /\ size_set = <<>>
    /\ to_return = {}
    /\ idx = 0
    /\ resolved = 0
    /\ args = [pass |-> 1, first |-> <<>>, input |-> sizes]
    /\ post_processor = "None"
    /\ stream_pos = 0
    /\ outcome = "none"
    /\ result = <<>>

NextValidate == ValidateFor \/ ValidateReturn \/ ValidateAgain

SpecValidate == InitValidate /\ [][NextValidate]_vars

-----------------------------------------------------------------------------
(* Properties of the validation. *)

\* the final segment of a size key after splitting on '__'
FinalSegment(k) == split(k, DUNDER)[Len(split(k, DUNDER))]

\* the grammar of section 4.1: the final segment is 'url' or contains 'x'
GrammarAccepts(k) == FinalSegment(k) = S_url \/ InStr("x", FinalSegment(k))

AllPairs(q) == \A i \in 1..Len(q) : IsPair(q[i])

\* C1: for a collection of (label, sizeKey) pairs of strings the validation
\* succeeds iff every size key's final segment is 'url' or contains 'x', and
\* fails with InvalidSizeKey otherwise; 'crop__400x400',
\* 'filters__invert__url', 'url' and '4xy' are accepted, 'crop_400_400' is
\* rejected with InvalidSizeKey.
C1_GrammarDecidesValidation ==
    (fn = "validate" /\ pc = "done" /\ AllPairs(sizes)) =>
        /\ outcome \in {"return", "InvalidSizeKey"}
        /\ outcome = "return" <=>
               \A i \in 1..Len(sizes) : GrammarAccepts(sizes[i].v[2])
        /\ (Len(sizes) = 1 /\ sizes[1].v[2] \in
                {K_crop__400x400, K_filters__invert__url, S_url, K_4xy})
               => outcome = "return"
        /\ (Len(sizes) = 1 /\ sizes[1].v[2] = K_crop_400_400)
               => outcome = "InvalidSizeKey"

\* C1 witness: a valid pair followed by 'crop_400_400' was rejected
C1_Witness ==
    /\ fn = "validate" /\ pc = "done"
    /\ sizes = <<Pair(L_a, K_crop__400x400), Pair(L_a, K_crop_400_400)>>
    /\ outcome = "InvalidSizeKey"

\* C2: a flat list of strings (of any length, length 2 included), and any
\* input with an element that cannot be unpacked into exactly two values,
\* fails with InvalidSizeKeySet.
C2_ShapeRejected ==
    (fn = "validate" /\ pc = "done" /\ args.pass = 1) =>
        /\ (args.input # <<>> /\
              \A i \in 1..Len(args.input) : args.input[i].t = "str")
               => outcome = "InvalidSizeKeySet"
        /\ (\E i \in 1..Len(args.input) :
               ~(args.input[i].t # "int" /\ Len(args.input[i].v) = 2))
               => outcome = "InvalidSizeKeySet"

\* C3: for any iterable of pairs that passes validation the returned
\* collection holds every distinct pair of the input exactly once and nothing
\* else, and validating the result again returns the same set.
C3_DedupAndIdempotent ==
    (fn = "validate" /\ pc = "done" /\ outcome = "return"
        /\ AllPairs(args.input)) =>
        /\ Cardinality(Range(result)) = Len(result)
        /\ args.pass = 1 => Range(result) = Range(args.input)
        /\ args.pass = 2 => Range(result) = Range(args.first)

-----------------------------------------------------------------------------
(* The image objects get_url_from_image_key walks.  A value is an object   *)
(* (with named attributes and, for a sized-image container, keyed entries) *)
(* or a string.                                                            *)

\* 'crop'
S_crop == <<"c", "r", "o", "p">>
\* 'filters'
S_filters == <<"f", "i", "l", "t", "e", "r", "s">>
\* 'invert'
S_invert == <<"i", "n", "v", "e", "r", "t">>
\* 'thumbnail'
S_thumbnail == <<"t", "h", "u", "m", "b", "n", "a", "i", "l">>
\* '400x400'
K_400x400 == <<"4", "0", "0", "x", "4", "0", "0">>
\* '100x100'
K_100x100 == <<"1", "0", "0", "x", "1", "0", "0">>
\* 'thumbnail__100x100'
K_thumbnail__100x100 ==
    <<"t", "h", "u", "m", "b", "n", "a", "i", "l", "_", "_", "1", "0",
      "0", "x", "1", "0", "0">>
\* 'crop__4xy'
K_crop__4xy == <<"c", "r", "o", "p", "_", "_", "4", "x", "y">>
\* 'filters__invert__crop__400x400'
K_filters__invert__crop__400x400 ==
    <<"f", "i", "l", "t", "e", "r", "s", "_", "_", "i", "n", "v", "e",
      "r", "t", "_", "_", "c", "r", "o", "p", "_", "_", "4", "0", "0",
      "x", "4", "0", "0">>
\* 'url__url'
K_url__url == <<"u", "r", "l", "_", "_", "u", "r", "l">>
\* 'crop__url'
K_crop__url == <<"c", "r", "o", "p", "_", "_", "u", "r", "l">>

Obj(id) == [t |-> "obj", id |-> id]
StrVal(u) == [t |-> "str", id |-> u]
NoValue == [t |-> "none", id |-> ""]

Ok(v) == [err |-> "none", val |-> v]
Raise(e) == [err |-> e, val |-> NoValue]

\* the named attributes of the objects: <<object, attribute name, value>>
WorldAttrs ==
    {<<"img", S_url, StrVal("/media/a.jpg")>>,
     <<"img", S_crop, Obj("img.crop")>>,
     <<"img", S_thumbnail, Obj("img.thumbnail")>>,
     <<"img", S_filters, Obj("img.filters")>>,
     <<"img", <<"a">>, Obj("img.a")>>,
     <<"img", <<"x">>, Obj("img.x")>>,
     <<"img.x", <<"a">>, StrVal("/media/x-a.jpg")>>,
     <<"img.crop.400x400", S_url,
           StrVal("/media/__sized__/a-crop-400x400.jpg")>>,
     <<"img.thumbnail.100x100", S_url,
           StrVal("/media/__sized__/a-thumbnail-100x100.jpg")>>,
     <<"img.filters", S_invert, Obj("img.filters.invert")>>,
     <<"img.filters.invert", S_url,
           StrVal("/media/__filtered__/a__invert__.jpg")>>,
     <<"img.filters.invert", S_crop, Obj("img.filters.invert.crop")>>,
     <<"img.filters.invert.crop.400x400", S_url,
           StrVal("/media/__filtered__/__sized__/a__invert__-crop.jpg")>>,
     <<"img.a", <<"a">>, Obj("img.a")>>,
     <<"img.a.x", S_url, StrVal("/media/a-x.jpg")>>,
     <<"root", S_crop, Obj("root.crop")>>,
     <<"root", <<"a">>, Obj("root")>>,
     <<"root.crop.400x400", S_url, StrVal("http://x/y.jpg")>>,
     <<"root.x", S_url, StrVal("http://x/x.jpg")>>,
     <<"empty_ph", S_url, StrVal("/media/placeholder.jpg")>>,
     <<"empty_ph", S_crop, Obj("empty_ph.crop")>>,
     <<"empty_ph.crop.400x400", S_url,
           StrVal("/media/__sized__/placeholder-crop-400x400.jpg")>>}

\* the keyed entries of the subscriptable objects: <<object, key, value>>
WorldItems ==
    {<<"img.crop", K_400x400, Obj("img.crop.400x400")>>,
     <<"img.thumbnail", K_100x100, Obj("img.thumbnail.100x100")>>,
     <<"img.filters.invert.crop", K_400x400,
           Obj("img.filters.invert.crop.400x400")>>,
     <<"img.a", <<"x">>, Obj("img.a.x")>>,
     <<"img.a", <<"x", "a">>, Obj("img.a.xa")>>,
     <<"root.crop", K_400x400, Obj("root.crop.400x400")>>,
     <<"root", <<"x">>, Obj("root.x")>>,
     <<"empty_ph.crop", K_400x400, Obj("empty_ph.crop.400x400")>>}

\* the objects that support obj[key]
Subscriptable == { e[1] : e \in WorldItems }

\* bool(image_instance): a field file with a name is truthy
Truthy(o) == o \in {"img", "root"}
\* image_instance.field.placeholder_image
HasPlaceholder(o) == o = "empty_ph"

\* getattr(v, name)
GetAttr(v, name) ==
    LET hits == { e \in WorldAttrs : v.t = "obj" /\ e[1] = v.id
                                       /\ e[2] = name }
    IN  IF hits = {} THEN Raise("AttributeError")
        ELSE Ok((CHOOSE e \in hits : TRUE)[3])

\* v[key]
GetItem(v, key) ==
    LET hits == { e \in WorldItems : v.t = "obj" /\ e[1] = v.id
                                       /\ e[2] = key }
    IN  IF v.t # "obj" \/ v.id \notin Subscriptable THEN Raise("TypeError")
        ELSE IF hits = {} THEN Raise("KeyError")
        ELSE Ok((CHOOSE e \in hits : TRUE)[3])

\* reduce(getattr, names, start) (line 203): a left fold, left at the first
\* attribute that is missing
RECURSIVE reduce_getattr(_, _)
reduce_getattr(names, start) ==
    IF names = <<>> THEN Ok(start)
    ELSE LET r == GetAttr(start, Head(names))
         IN  IF r.err # "none" THEN r
             ELSE reduce_getattr(Tail(names), r.val)

\* a variant of the test below that looks for 'x' in any segment
PopsSizeKey_AnySegment(img_key_split) ==
    \E i \in 1..Len(img_key_split) : InStr("x", img_key_split[i])

\* `'x' in img_key_split[-1]` (line 199)
PopsSizeKey(img_key_split) == InStr("x", img_key_split[Len(img_key_split)])

\* get_url_from_image_key (lines 196-206)
get_url_from_image_key(instance, image_key) ==
    LET split0 == split(image_key, DUNDER)
        pop == PopsSizeKey(split0)
        \* size_key: the popped segment, or None
        size_key == IF pop THEN [none |-> FALSE, s |-> split0[Len(split0)]]
                    ELSE [none |-> TRUE, s |-> <<>>]
        img_key_split == IF pop THEN SubSeq(split0, 1, Len(split0) - 1)
                         ELSE split0
        img_url == reduce_getattr(img_key_split, Obj(instance))
    IN  IF img_url.err # "none" THEN img_url
        ELSE IF ~size_key.none /\ size_key.s # <<>>
        THEN LET entry == GetItem(img_url.val, size_key.s)
             IN  IF entry.err # "none" THEN entry
                 ELSE GetAttr(entry.val, S_url)
        ELSE img_url

-----------------------------------------------------------------------------
(* get_url_from_image_key called on its own. *)

ResolveKeys ==
    AllKeys \cup {K_thumbnail__100x100, K_crop__4xy,
                  K_filters__invert__crop__400x400, K_url__url, K_crop__url}
Roots == {"img", "root", "empty_ph", "empty"}

InitResolve ==
    /\ fn = "resolve"
    /\ pc = "call"
    /\ image_instance \in Roots
    /\ args \in [image_key : ResolveKeys]
    /\ sizes = <<>>
    /\ sizesKind = "list"
    /\ cursor = 0
    /\ request = "None"
    /\ size_set = <<>>
    /\ to_return = {}
    /\ idx = 0
    /\ resolved = 0
    /\ post_processor = "None"
    /\ stream_pos = 0
    /\ outcome = "none"
    /\ result = NoValue

Resolve ==
    /\ fn = "resolve" /\ pc = "call"
    /\ LET r == get_url_from_image_key(image_instance, args.image_key)
       IN  /\ outcome' = IF r.err = "none" THEN "return" ELSE r.err
           /\ result' = r.val
    /\ pc' = "done"
    /\ UNCHANGED <<fn, sizes, sizesKind, cursor, image_instance, request,
                   size_set, to_return, idx, resolved, args, post_processor,
                   stream_pos>>

NextResolve == Resolve

SpecResolve == InitResolve /\ [][NextResolve]_vars

\* the object reached from v by the first n segments, taken as attribute
\* names from left to right
RECURSIVE WalkTo(_, _, _)
WalkTo(v, segs, n) ==
    IF n = 0 THEN Ok(v)
    ELSE LET before == WalkTo(v, segs, n - 1)
         IN  IF before.err # "none" THEN before
             ELSE GetAttr(before.val, segs[n])

\* section 4.4: the URL a size key designates on a root object
Designated(root, k) ==
    LET segs == split(k, DUNDER)
        n == Len(segs)
    IN  IF InStr("x", segs[n])
        THEN LET holder == WalkTo(Obj(root), segs, n - 1)
                 entry == GetItem(holder.val, segs[n])
             IN  IF holder.err # "none" THEN holder
                 ELSE IF entry.err # "none" THEN entry
                 ELSE GetAttr(entry.val, S_url)
        ELSE WalkTo(Obj(root), segs, n)

\* C6: when the last segment contains 'x' the result is the url of the keyed
\* entry [last segment] of the object reached by walking the preceding
\* segments from the root (the root itself for a single segment), otherwise
\* the value reached by walking all segments; 'crop__400x400' on the root
\* whose crop['400x400'].url is 'http://x/y.jpg' resolves to that URL.
C6_ResolveWalksChain ==
    (fn = "resolve" /\ pc = "done") =>
        LET want == Designated(image_instance, args.image_key)
        IN  /\ outcome = "return" <=> want.err = "none"
            /\ outcome = "return" => result = want.val
            /\ (image_instance = "root" /\ args.image_key = K_crop__400x400)
                   => outcome = "return" /\ result = StrVal("http://x/y.jpg")
            /\ (image_instance = "root" /\ args.image_key = <<"x">>)
                   => outcome = "return" /\ result = StrVal("http://x/x.jpg")

\* C6 witness: a three-step chain ending in a keyed entry was resolved
C6_Witness ==
    /\ fn = "resolve" /\ pc = "done"
    /\ image_instance = "img"
    /\ args.image_key = K_filters__invert__crop__400x400
    /\ outcome = "return"
    /\ result = StrVal("/media/__filtered__/__sized__/a__invert__-crop.jpg")

-----------------------------------------------------------------------------
(* build_versatileimagefield_url_set (lines 209-236).  Line 228 runs the   *)
(* validation above (ValidateFor, ValidateReturn) with fn = "build".       *)

\* the URLs that already carry a scheme and host
AbsoluteURLs == {"http://x/y.jpg", "http://x/x.jpg"}

\* request.build_absolute_uri(location) (line 234): a location without a
\* scheme is joined to the request's scheme and host
build_absolute_uri(v) ==
    IF v.t # "str" \/ v.id \in AbsoluteURLs THEN v
    ELSE StrVal("http://testserver" \o v.id)

\* a variant of the assignment below that keeps the value a key already has
DictSet_KeepFirst(d, key, value) ==
    IF \E e \in d : e[1] = key THEN d ELSE d \cup {<<key, value>>}

\* to_return[key] = img_url (line 235) on a dictionary held as a set of
\* <<key, value>> entries
DictSet(d, key, value) ==
    { e \in d : e[1] # key } \cup {<<key, value>>}

DictKeys(d) == { e[1] : e \in d }

\* `if image_instance or image_instance.field.placeholder_image:` (line 230)
BuildIf ==
    /\ fn = "build" /\ pc = "build_if"
    /\ to_return' = {}
    /\ IF Truthy(image_instance) \/ HasPlaceholder(image_instance)
       THEN /\ pc' = "build_for"
            /\ UNCHANGED <<outcome, result>>
       ELSE /\ pc' = "done"
            /\ outcome' = "return"
            /\ result' = {}
    /\ UNCHANGED <<fn, sizes, sizesKind, cursor, image_instance, request,
                   size_set, idx, resolved, args, post_processor,
                   stream_pos>>

\* a variant of the loop turn below that leaves out an entry whose resolution
\* fails and goes on with the next one
BuildFor_SkipFailed ==
    /\ fn = "build" /\ pc = "build_for"
    /\ idx < Len(size_set)
    /\ LET key == size_set[idx + 1].v[1]
           image_key == size_set[idx + 1].v[2]
           r == get_url_from_image_key(image_instance, image_key)
           img_url == IF request # "None" THEN build_absolute_uri(r.val)
                      ELSE r.val
       IN  to_return' = IF r.err # "none" THEN to_return
                        ELSE DictSet(to_return, key, img_url)
    /\ idx' = idx + 1
    /\ resolved' = resolved + 1
    /\ UNCHANGED <<fn, pc, sizes, sizesKind, cursor, image_instance, request,
                   size_set, args, post_processor, stream_pos, outcome,
                   result>>

\* one turn of `for key, image_key in size_set` (lines 231-235)
BuildFor ==
    /\ fn = "build" /\ pc = "build_for"
    /\ idx < Len(size_set)
    /\ LET key == size_set[idx + 1].v[1]
           image_key == size_set[idx + 1].v[2]
           r == get_url_from_image_key(image_instance, image_key)
           img_url == IF request # "None" THEN build_absolute_uri(r.val)
                      ELSE r.val
       IN  IF r.err # "none"
           THEN /\ pc' = "done"
                /\ outcome' = r.err
                /\ UNCHANGED <<to_return, idx>>
           ELSE /\ to_return' = DictSet(to_return, key, img_url)
                /\ idx' = idx + 1
                /\ UNCHANGED <<pc, outcome>>
    /\ resolved' = resolved + 1
    /\ UNCHANGED <<fn, sizes, sizesKind, cursor, image_instance, request,
                   size_set, args, post_processor, stream_pos, result>>

\* `return to_return` (line 236) after the loop
BuildReturn ==
    /\ fn = "build" /\ pc = "build_for"
    /\ idx = Len(size_set)
    /\ pc' = "done"
    /\ outcome' = "return"
    /\ result' = to_return
    /\ UNCHANGED <<fn, sizes, sizesKind, cursor, image_instance, request,
                   size_set, to_return, idx, resolved, args, post_processor,
                   stream_pos>>

BuildPool ==
    {Pair(L_a, S_url), Pair(L_a, K_crop__400x400),
     Pair(L_b, K_crop__400x400), Pair(L_b, K_filters__invert__url),
     Pair(L_b, K_crop__4xy), Pair(L_a, K_crop_400_400), Str(S_url)}

InitBuild ==
    /\ fn = "build"
    /\ pc = "validate_for"
    /\ sizes \in SeqsUpTo(BuildPool, MaxSet)
    /\ sizesKind \in {"list", "iterator"}
    /\ cursor = 0
    /\ image_instance \in {"img", "empty_ph", "empty"}
    /\ request \in {"None", "request"}
    /\ size_set = <<>>
    /\ to_return = {}
    /\ idx = 0
    /\ resolved = 0
    /\ args = [pass |-> 1, first |-> <<>>, input |-> sizes]
    /\ post_processor = "None"
    /\ stream_pos = 0
    /\ outcome = "none"
    /\ result = {}

NextBuild ==
    ValidateFor \/ ValidateReturn \/ BuildIf \/ BuildFor \/ BuildReturn

SpecBuild == InitBuild /\ [][NextBuild]_vars

-----------------------------------------------------------------------------
(* Properties of the url-set builder. *)

\* the URL recorded for a size key: resolved, then made absolute when a
\* request is supplied
UrlFor(k) ==
    LET r == get_url_from_image_key(image_instance, k)
    IN  IF request # "None" THEN build_absolute_uri(r.val) ELSE r.val

Labels(q) == { q[i].v[1] : i \in 1..Len(q) }

\* the position of the last pair of q that carries the label
LastWith(q, label) ==
    CHOOSE i \in 1..Len(q) :
        /\ q[i].v[1] = label
        /\ \A j \in 1..Len(q) : q[j].v[1] = label => j <= i

NoVariants == ~Truthy(image_instance) /\ ~HasPlaceholder(image_instance)

\* C4 as stated: an empty mapping for a falsy instance without placeholder,
\* otherwise the keys are exactly the labels of the (validated) set and for
\* every pair (label, sizeKey) of the validated set mapping[label] is the URL
\* resolved from that sizeKey, made absolute when a request is supplied.
C4_EveryPairMapped ==
    (fn = "build" /\ pc = "done" /\ outcome = "return") =>
        IF NoVariants THEN result = {}
        ELSE /\ DictKeys(result) = Labels(size_set)
             /\ \A i \in 1..Len(size_set) :
                   <<size_set[i].v[1], UrlFor(size_set[i].v[2])>> \in result

\* C4 amended: the keys are exactly the labels of the validated set, each
\* label has one entry, and it is the URL of the pair with that label that
\* the validated list enumerates last.
C4_LastPairOfLabelMapped ==
    (fn = "build" /\ pc = "done" /\ outcome = "return") =>
        IF NoVariants THEN result = {}
        ELSE /\ DictKeys(result) = Labels(size_set)
             /\ Cardinality(result) = Cardinality(Labels(size_set))
             /\ \A label \in Labels(size_set) :
                   <<label, UrlFor(size_set[LastWith(size_set, label)].v[2])>>
                       \in result

\* C4 witness: two pairs share the label 'a' and resolve to different URLs;
\* the mapping returned holds one of them, made absolute
C4_Witness ==
    /\ fn = "build" /\ pc = "done" /\ outcome = "return"
    /\ image_instance = "img" /\ request = "request"
    /\ Range(size_set) = {Pair(L_a, S_url), Pair(L_a, K_crop__400x400)}
    /\ result = {<<L_a, StrVal("http://testserver/media/a.jpg")>>}

\* the exception the validation of q ends with, "ok" when there is none
RECURSIVE FirstFailure(_)
FirstFailure(q) ==
    IF q = <<>> THEN "ok"
    ELSE IF ValidateElement(Head(q)) # "ok" THEN ValidateElement(Head(q))
    ELSE FirstFailure(Tail(q))

\* the entries of the validated list whose resolution fails
Failing(q) ==
    { i \in 1..Len(q) :
         get_url_from_image_key(image_instance, q[i].v[2]).err # "none" }

\* C5: the build is all-or-nothing.  An element that fails validation makes
\* the call fail with the validation's own exception before any entry is
\* resolved (also for a falsy instance); an entry whose resolution fails
\* makes the call fail; a mapping is returned only complete.
C5_AllOrNothing ==
    (fn = "build" /\ pc = "done") =>
        /\ (\E i \in 1..Len(sizes) : ValidateElement(sizes[i]) # "ok") =>
               /\ outcome = FirstFailure(sizes)
               /\ resolved = 0
               /\ to_return = {}
        /\ (FirstFailure(sizes) = "ok" /\ ~NoVariants
               /\ Failing(size_set) # {}) =>
               /\ outcome \notin {"none", "return"}
               /\ \E i \in Failing(size_set) :
                     /\ \A j \in Failing(size_set) : i <= j
                     /\ outcome =
                          get_url_from_image_key(image_instance,
                                                 size_set[i].v[2]).err
        /\ outcome # "return" => result = {}
        /\ (outcome = "return" /\ ~NoVariants) =>
               /\ Failing(size_set) = {}
               /\ resolved = Len(size_set)
               /\ DictKeys(result) = Labels(size_set)

\* C5 witness: the second entry could not be resolved after the first one had
\* been stored; the call raised and returned no mapping
C5_Witness ==
    /\ fn = "build" /\ pc = "done"
    /\ outcome = "KeyError"
    /\ resolved = 2
    /\ to_return # {}
    /\ result = {}

-----------------------------------------------------------------------------
(* The file name templates: post_process_image_key, get_resized_filename   *)
(* and get_filtered_filename (lines 48-84 and 111-126).                    *)

\* 'jpg'
S_jpg == <<"j", "p", "g">>
\* 'jpeg'
S_jpeg == <<"j", "p", "e", "g">>
\* 'webp'
S_webp == <<"w", "e", "b", "p">>
\* 'photo.jpg'
N_photo_jpg == <<"p", "h", "o", "t", "o", ".", "j", "p", "g">>
\* 'noext'
N_noext == <<"n", "o", "e", "x", "t">>
\* 'photo.png'
N_photo_png == <<"p", "h", "o", "t", "o", ".", "p", "n", "g">>
\* 'a.WebP'
N_a_WebP == <<"a", ".", "W", "e", "b", "P">>
\* 'a.b.JPEG'
N_a_b_JPEG == <<"a", ".", "b", ".", "J", "P", "E", "G">>
\* 'pic.webp'
N_pic_webp == <<"p", "i", "c", ".", "w", "e", "b", "p">>
\* 'thumb'
S_thumb == <<"t", "h", "u", "m", "b">>
\* 'a-b'
S_a_b == <<"a", "-", "b">>

\* settings.JPEG_QUAL and settings.WEBP_QUAL (imported at lines 10 and 14)
JPEG_QUAL == 70
WEBP_QUAL == 75

UPPERCASE ==
    <<"A", "B", "C", "D", "E", "F", "G", "H", "I", "J", "K", "L", "M",
      "N", "O", "P", "Q", "R", "S", "T", "U", "V", "W", "X", "Y", "Z">>
LOWERCASE ==
    <<"a", "b", "c", "d", "e", "f", "g", "h", "i", "j", "k", "l", "m",
      "n", "o", "p", "q", "r", "s", "t", "u", "v", "w", "x", "y", "z">>

\* s.lower()
lower(s) ==
    [i \in 1..Len(s) |->
        IF \E k \in 1..26 : UPPERCASE[k] = s[i]
        THEN LOWERCASE[CHOOSE k \in 1..26 : UPPERCASE[k] = s[i]]
        ELSE s[i]]

DIGITS == <<"0", "1", "2", "3", "4", "5", "6", "7", "8", "9">>

\* the decimal digits of a natural number
RECURSIVE decimal(_)
decimal(n) ==
    IF n < 10 THEN <<DIGITS[n + 1]>>
    ELSE decimal(n \div 10) \o <<DIGITS[(n % 10) + 1]>>

\* "%d" % n
format_d(n) == IF n < 0 THEN <<"-">> \o decimal(-n) ELSE decimal(n)

\* s[::-1]
RECURSIVE reversed(_)
reversed(s) == IF s = <<>> THEN <<>> ELSE reversed(Tail(s)) \o <<Head(s)>>

\* the functions settings.VERSATILEIMAGEFIELD_POST_PROCESSOR is configured
\* with in the model: none, one that reverses the key, one that drops its
\* dashes
Processors == {"None", "reverse", "drop_dashes"}

\* post_process_image_key (lines 48-53)
post_process_image_key(image_key) ==
    CASE post_processor = "None" -> image_key
      [] post_processor = "reverse" -> reversed(image_key)
      [] OTHER -> replace_char(image_key, "-")

\* `image_name, ext = filename.rsplit('.', 1)` with the ValueError branch
\* (lines 62-66 and 117-121)
rsplit_ext(filename) ==
    LET i == RFind(filename, <<".">>)
    IN  IF i = 0 THEN [image_name |-> filename, ext |-> S_jpg]
        ELSE [image_name |-> SubSeq(filename, 1, i - 1),
              ext |-> SubSeq(filename, i + 1, Len(filename))]

\* a variant of line 69 that compares the extension as written
quality_for_CaseSensitive(ext) ==
    IF ext = S_webp THEN WEBP_QUAL ELSE JPEG_QUAL

\* line 69
quality_for(ext) == IF lower(ext) = S_webp THEN WEBP_QUAL ELSE JPEG_QUAL

\* lines 68-78: the resized key
resized_key(ext, width, height, filename_key) ==
    LET base == filename_key \o <<"-">> \o format_d(width) \o <<"x">>
                    \o format_d(height)
    IN  IF lower(ext) \in {S_jpg, S_jpeg, S_webp}
        THEN base \o <<"-">> \o format_d(quality_for(ext))
        ELSE base

\* get_resized_filename (lines 56-84)
get_resized_filename(filename, width, height, filename_key) ==
    LET parts == rsplit_ext(filename)
    IN  parts.image_name \o <<"-">>
            \o post_process_image_key(
                   resized_key(parts.ext, width, height, filename_key))
            \o <<".">> \o parts.ext

\* a variant of get_filtered_filename that post-processes the filename key
get_filtered_filename_Hooked(filename, filename_key) ==
    LET parts == rsplit_ext(filename)
    IN  parts.image_name \o DUNDER \o post_process_image_key(filename_key)
            \o DUNDER \o <<".">> \o parts.ext

\* get_filtered_filename (lines 111-126)
get_filtered_filename(filename, filename_key) ==
    LET parts == rsplit_ext(filename)
    IN  parts.image_name \o DUNDER \o filename_key \o DUNDER
            \o <<".">> \o parts.ext

NamePool ==
    {N_photo_jpg, N_noext, N_photo_png, N_a_WebP, N_a_b_JPEG, N_pic_webp}
        \cup SeqsUpTo({"a", "."}, MaxNameLen)
DimPool == {<<400, 300>>, <<100, 100>>, <<0, 7>>, <<-1, 1050>>}
FilenameKeys == {S_crop, S_thumb, S_invert, S_a_b}

InitName ==
    /\ fn \in {"get_resized_filename", "get_filtered_filename"}
    /\ pc = "call"
    /\ post_processor \in Processors
    /\ \E f \in NamePool, d \in DimPool, k \in FilenameKeys :
          args = [filename |-> f,
                  width |-> IF fn = "get_resized_filename" THEN d[1] ELSE 0,
                  height |-> IF fn = "get_resized_filename" THEN d[2] ELSE 0,
                  filename_key |-> k]
    /\ sizes = <<>>
    /\ sizesKind = "list"
    /\ cursor = 0
    /\ image_instance = "None"
    /\ request = "None"
    /\ size_set = <<>>
    /\ to_return = {}
    /\ idx = 0
    /\ resolved = 0
    /\ stream_pos = 0
    /\ outcome = "none"
    /\ result = <<>>

ResizedFilename ==
    /\ fn = "get_resized_filename" /\ pc = "call"
    /\ result' = get_resized_filename(args.filename, args.width,
                                      args.height, args.filename_key)
    /\ outcome' = "return"
    /\ pc' = "done"
    /\ UNCHANGED <<fn, sizes, sizesKind, cursor, image_instance, request,
                   size_set, to_return, idx, resolved, args, post_processor,
                   stream_pos>>

FilteredFilename ==
    /\ fn = "get_filtered_filename" /\ pc = "call"
    /\ result' = get_filtered_filename(args.filename, args.filename_key)
    /\ outcome' = "return"
    /\ pc' = "done"
    /\ UNCHANGED <<fn, sizes, sizesKind, cursor, image_instance, request,
                   size_set, to_return, idx, resolved, args, post_processor,
                   stream_pos>>

NextName == ResizedFilename \/ FilteredFilename

SpecName == InitName /\ [][NextName]_vars

-----------------------------------------------------------------------------
(* Properties of the file name templates. *)

\* 'photo-crop-400x300-70.jpg'
R_photo_crop ==
    <<"p", "h", "o", "t", "o", "-", "c", "r", "o", "p", "-", "4", "0",
      "0", "x", "3", "0", "0", "-", "7", "0", ".", "j", "p", "g">>
\* 'noext-thumb-100x100-70.jpg'
R_noext_thumb ==
    <<"n", "o", "e", "x", "t", "-", "t", "h", "u", "m", "b", "-", "1",
      "0", "0", "x", "1", "0", "0", "-", "7", "0", ".", "j", "p", "g">>
\* 'photo__invert__.png'
R_photo_invert ==
    <<"p", "h", "o", "t", "o", "_", "_", "i", "n", "v", "e", "r", "t",
      "_", "_", ".", "p", "n", "g">>
\* 'a-crop-400x300-75.WebP'
R_a_WebP ==
    <<"a", "-", "c", "r", "o", "p", "-", "4", "0", "0", "x", "3", "0",
      "0", "-", "7", "5", ".", "W", "e", "b", "P">>

\* the positions of '.' in a file name
Dots(f) == { i \in 1..Len(f) : f[i] = "." }
LastDot(f) == CHOOSE i \in Dots(f) : \A j \in Dots(f) : j <= i
\* the split on the last '.': the whole name and 'jpg' when there is none
Stem(f) == IF Dots(f) = {} THEN f ELSE SubSeq(f, 1, LastDot(f) - 1)
Ext(f) == IF Dots(f) = {} THEN S_jpg ELSE SubSeq(f, LastDot(f) + 1, Len(f))

\* the post-processing hook of section 4.2
Hook(k) ==
    IF post_processor = "None" THEN k
    ELSE IF post_processor = "reverse" THEN reversed(k)
    ELSE SelectSeq(k, LAMBDA c : c # "-")

\* ext is, case-insensitively, one of the given extensions
ExtIs(f, exts) == \E e \in exts : lower(Ext(f)) = e

\* the key of the sized template with its quality suffix
SizedKey(f, w, h, k) ==
    k \o <<"-">> \o format_d(w) \o <<"x">> \o format_d(h)
      \o (IF ExtIs(f, {S_webp}) THEN <<"-">> \o format_d(WEBP_QUAL)
          ELSE IF ExtIs(f, {S_jpg, S_jpeg}) THEN <<"-">> \o format_d(JPEG_QUAL)
          ELSE <<>>)

-----------------------------------------------------------------------------
(* The storage paths: get_resized_path and get_filtered_path (lines        *)
(* 87-143), with os.path.split and os.path.join of posixpath.              *)

\* settings.VERSATILEIMAGEFIELD_SIZED_DIRNAME and _FILTERED_DIRNAME
\* (imported at lines 12 and 13)
\* '__sized__'
SIZED_DIRNAME == <<"_", "_", "s", "i", "z", "e", "d", "_", "_">>
\* '__filtered__'
FILTERED_DIRNAME ==
    <<"_", "_", "f", "i", "l", "t", "e", "r", "e", "d", "_", "_">>

\* s.rstrip('/')
RECURSIVE rstrip_slash(_)
rstrip_slash(s) ==
    IF s # <<>> /\ s[Len(s)] = "/" THEN rstrip_slash(SubSeq(s, 1, Len(s) - 1))
    ELSE s

\* os.path.split(p): everything up to the last '/' without its trailing
\* slashes (kept when the head is slashes only), and what follows it
os_path_split(p) ==
    LET i == RFind(p, <<"/">>)
        head == SubSeq(p, 1, i)
        tail == SubSeq(p, i + 1, Len(p))
    IN  IF head # <<>> /\ \E j \in 1..Len(head) : head[j] # "/"
        THEN <<rstrip_slash(head), tail>>
        ELSE <<head, tail>>

\* a variant of the join step below that appends an absolute component too
join_step_NoReset(path, b) ==
    IF path = <<>> \/ path[Len(path)] = "/" THEN path \o b
    ELSE path \o <<"/">> \o b

\* one step of os.path.join: an absolute component replaces what was joined
\* so far, another one is appended after a '/' unless one is there
join_step(path, b) ==
    IF b # <<>> /\ b[1] = "/" THEN b
    ELSE IF path = <<>> \/ path[Len(path)] = "/" THEN path \o b
    ELSE path \o <<"/">> \o b

\* os.path.join(a, b, c)
os_path_join(a, b, c) == join_step(join_step(a, b), c)

\* get_resized_path (lines 87-108)
get_resized_path(path_to_image, width, height, filename_key) ==
    LET containing_folder == os_path_split(path_to_image)[1]
        filename == os_path_split(path_to_image)[2]
        resized_filename ==
            get_resized_filename(filename, width, height, filename_key)
    IN  replace_char(os_path_join(SIZED_DIRNAME, containing_folder,
                                  resized_filename), " ")

\* get_filtered_path (lines 129-143)
get_filtered_path(path_to_image, filename_key) ==
    LET containing_folder == os_path_split(path_to_image)[1]
        filename == os_path_split(path_to_image)[2]
        filtered_filename == get_filtered_filename(filename, filename_key)
    IN  replace_char(os_path_join(containing_folder, FILTERED_DIRNAME,
                                  filtered_filename), " ")

\* 'photo.jpg'
P_photo == N_photo_jpg
\* 'media/photo.jpg'
P_media_photo ==
    <<"m", "e", "d", "i", "a", "/", "p", "h", "o", "t", "o", ".", "j",
      "p", "g">>
\* '/media/photo.jpg'
P_abs_media_photo ==
    <<"/", "m", "e", "d", "i", "a", "/", "p", "h", "o", "t", "o", ".",
      "j", "p", "g">>
\* 'my dir/my photo.png'
P_my_dir ==
    <<"m", "y", " ", "d", "i", "r", "/", "m", "y", " ", "p", "h", "o",
      "t", "o", ".", "p", "n", "g">>
\* 'my key'
S_my_key == <<"m", "y", " ", "k", "e", "y">>

PathPool ==
    {P_photo, P_media_photo, P_abs_media_photo, P_my_dir}
        \cup SeqsUpTo({"a", "/", " "}, MaxPathLen)
PathKeys == {S_crop, S_my_key}
PathDims == {<<400, 300>>, <<0, 7>>}

InitPath ==
    /\ fn \in {"get_resized_path", "get_filtered_path"}
    /\ pc = "call"
    /\ post_processor \in {"None", "reverse"}
    /\ \E p \in PathPool, d \in PathDims, k \in PathKeys :
          args = [path_to_image |-> p,
                  width |-> IF fn = "get_resized_path" THEN d[1] ELSE 0,
                  height |-> IF fn = "get_resized_path" THEN d[2] ELSE 0,
                  filename_key |-> k]
    /\ sizes = <<>>
    /\ sizesKind = "list"
    /\ cursor = 0
    /\ image_instance = "None"
    /\ request = "None"
    /\ size_set = <<>>
    /\ to_return = {}
    /\ idx = 0
    /\ resolved = 0
    /\ stream_pos = 0
    /\ outcome = "none"
    /\ result = <<>>

ResizedPath ==
    /\ fn = "get_resized_path" /\ pc = "call"
    /\ result' = get_resized_path(args.path_to_image, args.width,
                                  args.height, args.filename_key)
    /\ outcome' = "return"
    /\ pc' = "done"
    /\ UNCHANGED <<fn, sizes, sizesKind, cursor, image_instance, request,
                   size_set, to_return, idx, resolved, args, post_processor,
                   stream_pos>>

FilteredPath ==
    /\ fn = "get_filtered_path" /\ pc = "call"
    /\ result' = get_filtered_path(args.path_to_image, args.filename_key)
    /\ outcome' = "return"
    /\ pc' = "done"
    /\ UNCHANGED <<fn, sizes, sizesKind, cursor, image_instance, request,
                   size_set, to_return, idx, resolved, args, post_processor,
                   stream_pos>>

NextPath == ResizedPath \/ FilteredPath

SpecPath == InitPath /\ [][NextPath]_vars

-----------------------------------------------------------------------------
(* Properties of the storage paths. *)

\* '/media/photo-crop-400x300-70.jpg'
R_abs_sized ==
    <<"/", "m", "e", "d", "i", "a", "/", "p", "h", "o", "t", "o", "-",
      "c", "r", "o", "p", "-", "4", "0", "0", "x", "3", "0", "0", "-",
      "7", "0", ".", "j", "p", "g">>
\* '__sized__/media/photo-crop-400x300-70.jpg'
R_rel_sized ==
    <<"_", "_", "s", "i", "z", "e", "d", "_", "_", "/", "m", "e", "d",
      "i", "a", "/", "p", "h", "o", "t", "o", "-", "c", "r", "o", "p",
      "-", "4", "0", "0", "x", "3", "0", "0", "-", "7", "0", ".", "j",
      "p", "g">>
\* '/media/__filtered__/photo__crop__.jpg'
R_abs_filtered ==
    <<"/", "m", "e", "d", "i", "a", "/", "_", "_", "f", "i", "l", "t",
      "e", "r", "e", "d", "_", "_", "/", "p", "h", "o", "t", "o", "_",
      "_", "c", "r", "o", "p", "_", "_", ".", "j", "p", "g">>
\* 'mydir/__filtered__/myphoto__crop__.png'
R_mydir_filtered ==
    <<"m", "y", "d", "i", "r", "/", "_", "_", "f", "i", "l", "t", "e",
      "r", "e", "d", "_", "_", "/", "m", "y", "p", "h", "o", "t", "o",
      "_", "_", "c", "r", "o", "p", "_", "_", ".", "p", "n", "g">>

\* the original file's directory component and its file name
Folder(p) == os_path_split(p)[1]
FileName(p) == os_path_split(p)[2]
SizedName(p) ==
    get_resized_filename(FileName(p), args.width, args.height,
                         args.filename_key)
FilteredName(p) == get_filtered_filename(FileName(p), args.filename_key)

\* s without its space characters
NoSpaces(s) == SelectSeq(s, LAMBDA c : c # " ")
\* the separator that follows a folder: none after an empty folder or a '/'
Sep(folder) ==
    IF folder = <<>> \/ folder[Len(folder)] = "/" THEN <<>> ELSE <<"/">>
IsAbsolute(folder) == folder # <<>> /\ folder[1] = "/"

\* C9 as stated: for every original path, relative or absolute, the sized
\* result is SIZED_DIR/containingFolder/sizedName and always lies under the
\* SIZED_DIR prefix, the filtered result is
\* containingFolder/FILTERED_DIR/filteredName with FILTERED_DIR directly
\* containing the file, and no returned path contains a space.
C9_SizedUnderPrefix ==
    (fn \in {"get_resized_path", "get_filtered_path"} /\ pc = "done") =>
        LET p == args.path_to_image
        IN  /\ ~InStr(" ", result)
            /\ fn = "get_resized_path" =>
                  /\ StartsWith(result, SIZED_DIRNAME \o <<"/">>)
                  /\ result = NoSpaces(SIZED_DIRNAME \o <<"/">> \o Folder(p)
                                         \o Sep(Folder(p)) \o SizedName(p))
            /\ fn = "get_filtered_path" =>
                  result = NoSpaces(Folder(p) \o Sep(Folder(p))
                                      \o FILTERED_DIRNAME \o <<"/">>
                                      \o FilteredName(p))

\* C9 amended: the sized result is SIZED_DIR/containingFolder/sizedName, under
\* the SIZED_DIR prefix, when the containing folder does not begin with '/';
\* when it does, SIZED_DIR is dropped and the result is
\* containingFolder/sizedName.  The filtered result is always
\* containingFolder/FILTERED_DIR/filteredName.  Spaces are removed from both.
C9_SizedUnderPrefixIfRelative ==
    (fn \in {"get_resized_path", "get_filtered_path"} /\ pc = "done") =>
        LET p == args.path_to_image
        IN  /\ outcome = "return"
            /\ ~InStr(" ", result)
            /\ (fn = "get_resized_path" /\ ~IsAbsolute(Folder(p))) =>
                  /\ StartsWith(result, SIZED_DIRNAME \o <<"/">>)
                  /\ result = NoSpaces(SIZED_DIRNAME \o <<"/">> \o Folder(p)
                                         \o Sep(Folder(p)) \o SizedName(p))
            /\ (fn = "get_resized_path" /\ IsAbsolute(Folder(p))) =>
                  /\ ~StartsWith(result, SIZED_DIRNAME)
                  /\ result = NoSpaces(Folder(p) \o Sep(Folder(p))
                                         \o SizedName(p))
            /\ fn = "get_filtered_path" =>
                  result = NoSpaces(Folder(p) \o Sep(Folder(p))
                                      \o FILTERED_DIRNAME \o <<"/">>
                                      \o FilteredName(p))
            /\ (post_processor = "None" /\ p = P_media_photo
                  /\ fn = "get_resized_path" /\ args.width = 400
                  /\ args.filename_key = S_crop) => result = R_rel_sized
            /\ (p = P_abs_media_photo /\ fn = "get_filtered_path"
                  /\ args.filename_key = S_crop) => result = R_abs_filtered
            /\ (p = P_my_dir /\ fn = "get_filtered_path"
                  /\ args.filename_key = S_crop) => result = R_mydir_filtered

\* C9 witness: the sized path of '/media/photo.jpg' is
\* '/media/photo-crop-400x300-70.jpg'
C9_Witness ==
    /\ fn = "get_resized_path" /\ pc = "done"
    /\ args.path_to_image = P_abs_media_photo
    /\ post_processor = "None"
    /\ result = R_abs_sized

-----------------------------------------------------------------------------
(* get_image_metadata_from_file (lines 146-162) and the table it reads.    *)

\* MIME_TYPE_TO_PIL_IDENTIFIER (lines 20-37) as <<mime type, identifier>>
MIME_TYPE_TO_PIL_IDENTIFIER ==
    {<<"image/x-ms-bmp", "BMP">>, <<"image/bmp", "BMP">>,
     <<"image/dcx", "DCX">>, <<"image/eps", "eps">>,
     <<"image/gif", "GIF">>, <<"image/jpeg", "JPEG">>,
     <<"image/pcd", "PCD">>, <<"image/pcx", "PCX">>,
     <<"application/pdf", "PDF">>, <<"image/png", "PNG">>,
     <<"image/x-ppm", "PPM">>, <<"image/psd", "PSD">>,
     <<"image/tiff", "TIFF">>, <<"image/x-xbitmap", "XBM">>,
     <<"image/x-xpm", "XPM">>, <<"image/webp", "WEBP">>}

TableKeys == { e[1] : e \in MIME_TYPE_TO_PIL_IDENTIFIER }

\* MIME_TYPE_TO_PIL_IDENTIFIER[mime_type] (line 161)
TableLookup(mime_type) ==
    IF mime_type \in TableKeys
    THEN [err |-> "none",
          val |-> (CHOOSE e \in MIME_TYPE_TO_PIL_IDENTIFIER :
                      e[1] = mime_type)[2]]
    ELSE [err |-> "KeyError", val |-> ""]

\* lines 155-158: the first candidate's MIME type, '' when there is none
first_mime_type(candidates) ==
    IF Len(candidates) > 0 THEN candidates[1] ELSE ""

\* the MIME types the sniffer may report
MimePool == TableKeys \cup {"", "text/plain", "image/svg+xml"}
\* where the sniffer may leave the stream
StreamPositions == {0, 8, 64}

InitClassify ==
    /\ fn = "get_image_metadata_from_file"
    /\ pc = "sniff"
    /\ stream_pos \in {0, 8}
    /\ args \in [candidates : SeqsUpTo(MimePool, MaxCand)]
    /\ sizes = <<>>
    /\ sizesKind = "list"
    /\ cursor = 0
    /\ image_instance = "None"
    /\ request = "None"
    /\ size_set = <<>>
    /\ to_return = {}
    /\ idx = 0
    /\ resolved = 0
    /\ post_processor = "None"
    /\ outcome = "none"
    /\ result = <<>>

\* puremagic.magic_stream(file_like) (line 153) reads the stream and leaves
\* it at some position
Sniff ==
    /\ fn = "get_image_metadata_from_file" /\ pc = "sniff"
    /\ stream_pos' \in StreamPositions
    /\ pc' = "classify"
    /\ UNCHANGED <<fn, sizes, sizesKind, cursor, image_instance, request,
                   size_set, to_return, idx, resolved, args, post_processor,
                   outcome, result>>

\* lines 155-162: pick the MIME type, rewind, look it up, return
Classify ==
    /\ fn = "get_image_metadata_from_file" /\ pc = "classify"
    /\ stream_pos' = 0
    /\ LET mime_type == first_mime_type(args.candidates)
           image_format == TableLookup(mime_type)
       IN  IF image_format.err # "none"
           THEN outcome' = image_format.err /\ UNCHANGED result
           ELSE outcome' = "return"
                  /\ result' = <<image_format.val, mime_type>>
    /\ pc' = "done"
    /\ UNCHANGED <<fn, sizes, sizesKind, cursor, image_instance, request,
                   size_set, to_return, idx, resolved, args, post_processor>>

NextClassify == Sniff \/ Classify

SpecClassify == InitClassify /\ [][NextClassify]_vars

\* C10: a sniffed MIME type (the first candidate, '' when there is none) that
\* is not a key of the table makes the call fail with UnsupportedFormat and
\* with no other error; one that is a key makes it return
\* (table[mime], mime) with the stream at its start.
C10_MissFailsUnsupportedFormat ==
    (fn = "get_image_metadata_from_file" /\ pc = "done") =>
        LET mime == IF args.candidates = <<>> THEN ""
                    ELSE Head(args.candidates)
        IN  /\ mime \notin TableKeys => outcome = "UnsupportedFormat"
            /\ mime \in TableKeys =>
                  /\ outcome = "return"
                  /\ <<result[2], result[1]>> \in
                        { <<e[1], e[2]>> : e \in MIME_TYPE_TO_PIL_IDENTIFIER }
                  /\ result[2] = mime
                  /\ stream_pos = 0

=============================================================================
